---- MODULE Spec2Model ----
(***************************************************************************)
(* Monitor lifecycle of ContainerMonitor: the reconciliation loop of       *)
(* main(), the per-container TContainerMonitor (both implementations kept  *)
(* in container_monitor.go) and the ThreadList registry statsThreads.      *)
(***************************************************************************)
EXTENDS Integers, FiniteSets, Sequences, TLC

\* ---------------------------------------------------------------- bounds
\* number of TContainerMonitor objects main() may construct in one run
MaxMon == 2
\* bits of a float64 mantissa, scaled down (53 in the build): the integers up to
\* 2^MantBits are the ones a float64 holds exactly
MantBits == 11

\* container ids the discovery query may report
Ids == {"a", "b"}
\* the value strconv.Itoa(0) written by the second GetOpt
ZeroId == "0"
\* statistic.Name as decoded from the stream
StatName == "/c"
\* option names handed to GetOpt
OptNames == {"name", "labels", "other"}

\* the order in which a range loop visits ids
IdOrder == <<"a", "b">>
First(S) ==
    IF S = {} THEN ""
    ELSE IdOrder[CHOOSE i \in 1..Len(IdOrder) :
                    IdOrder[i] \in S /\ \A j \in 1..(i - 1) : IdOrder[j] \notin S]

Mons == 1..MaxMon
NoMon == 0

VARIABLES
    impl,          \* which container_monitor.go implementation is built: 1 or 2
    proc,          \* "running" | "panic" | "fatalServe" | "fatalShutdown" | "exited"
    record,        \* which history is kept: "cycle" (cyc) or "tick" (lastTick)
    recPc,         \* position of main()'s for-loop
    containerList, \* result of cli.ContainerList in this cycle (ids)
    todo,          \* ids of containerList not yet visited by the first range loop
    cur,           \* mon: the monitor under construction
    keys,          \* keys of GetKeys() not yet visited by the second range loop
    statsThreads,  \* the registry: set of [id, h] entries
    mons,          \* fields of each TContainerMonitor
    monPc,         \* position of each monitor's readStream task
    thread,        \* containerStopped's local 'thread' per monitor task
    hist,          \* history per monitor: what Exec returned, OnRemove invocations,
                   \* why readStream ended ("stop": flag seen, "err": an error in
                   \* a tick, "openErr": ContainerStats failed)
    lastTick,      \* history: what the read-loop tick just taken did (NoTick after any other step)
    cyc,           \* history: what happened since the last ContainerList
    apiRet         \* value returned by the last directly issued API call

vars == <<impl, record, proc, recPc, containerList, todo, cur, keys,
          statsThreads, mons, monPc, thread, hist, lastTick, cyc, apiRet>>

recVars == <<recPc, containerList, todo, cur, keys>>

\* ---------------------------------------------------------------- data
\* new(TContainerMonitor): Go zero value
ZeroMon == [Id |-> "", Name |-> "", Labels |-> "nil", cli |-> "nil", stop |-> FALSE]

NoTick == [m |-> NoMon, stopSeen |-> FALSE, decode |-> "none", inspect |-> "none",
           delivered |-> 0]

NoCycle == [regAtStart |-> {}, started |-> {}, failed |-> {}, deleted |-> {},
            keys |-> {}, stopped |-> {}]

NoHist == [start |-> "none", removed |-> 0, end |-> "none"]

\* ---------------------------------------------------------------- registry (ThreadList)
Exists(reg, id) == \E e \in reg : e.id = id

Get(reg, id) ==
    IF Exists(reg, id)
    THEN [found |-> TRUE, h |-> (CHOOSE e \in reg : e.id = id).h]
    ELSE [found |-> FALSE, h |-> NoMon]

PutOverwrite(reg, id, h) ==
    [err |-> "nil", reg |-> reg \cup {[id |-> id, h |-> h]}]

Put(reg, id, h) ==
    IF Exists(reg, id)
    THEN [err |-> "AlreadyMonitored", reg |-> reg]
    ELSE [err |-> "nil", reg |-> reg \cup {[id |-> id, h |-> h]}]

Del(reg, id) == {e \in reg : e.id # id}

GetKeys(reg) == {e.id : e \in reg}

Handles(reg) == {e.h : e \in reg}

\* ---------------------------------------------------------------- TContainerMonitor methods
\* cli.Close() of the docker client reports no error
CliClose(c) == [err |-> "nil", cli |-> "closed"]

StopToggle(mr) ==
    [err |-> "nil", m |-> [mr EXCEPT !.stop = ~mr.stop]]

\* Stop(): m.stop = true; close the client when there is one
Stop(mr) ==
    IF mr.cli = "nil"
    THEN [err |-> "nil", m |-> [mr EXCEPT !.stop = TRUE]]
    ELSE [err |-> CliClose(mr.cli).err,
          m |-> [mr EXCEPT !.stop = TRUE, !.cli = CliClose(mr.cli).cli]]

\* GetOpt(name): *TOpt or nil, and the monitor as the call leaves it
GetOpt(im, mr, name) ==
    CASE name = "name"   -> [ret |-> [Name |-> "name", Value |-> mr.Name], m |-> mr]
      [] name = "labels" -> [ret |-> [Name |-> "labels", Value |-> mr.Labels], m |-> mr]
      [] OTHER ->
           IF im = 2
           THEN [ret |-> "nil", m |-> [mr EXCEPT !.Id = ZeroId, !.Name = ""]]
           ELSE [ret |-> "nil", m |-> mr]

\* outcomes of the environment calls made by init()
InitOutcomes == {"ok", "connErr", "inspectErr"}

\* init(): returns the error and the monitor as init leaves it
MonInit(mr, out) ==
    IF mr.Id = "" THEN [err |-> "configErr", m |-> mr]
    ELSE IF out = "connErr" THEN [err |-> "connErr", m |-> mr]
    ELSE IF out = "inspectErr" THEN [err |-> "inspectErr", m |-> [mr EXCEPT !.cli = "open"]]
    ELSE [err |-> "nil", m |-> [mr EXCEPT !.cli = "open", !.Labels = "set"]]

ExecAlwaysLaunch(mr, out) ==
    [err |-> MonInit(mr, out).err,
     m |-> [MonInit(mr, out).m EXCEPT !.stop = FALSE],
     launched |-> TRUE]

\* Exec(): init, clear the stop flag, go m.readStream()
Exec(mr, out) ==
    IF MonInit(mr, out).err # "nil"
    THEN [err |-> MonInit(mr, out).err, m |-> MonInit(mr, out).m, launched |-> FALSE]
    ELSE [err |-> "nil", m |-> [MonInit(mr, out).m EXCEPT !.stop = FALSE],
          launched |-> TRUE]


\* the flag as a read in readStream may see it: Stop() writes m.stop from another
\* goroutine without synchronisation, so the read sees the write or still the
\* false that Exec stored before the task was launched
StopReads(mr) == {mr.stop, FALSE}

DecodeOutcomes == {"ok", "err", "eof"}
InspectOutcomes == {"ok", "err"}

\* what one tick can meet: the flag as read, then the decoder's result when the
\* flag was read false, then the status query's result when a record was decoded
TickInputs(mr) ==
    {[seen |-> TRUE, dec |-> "none", insp |-> "none"] : x \in StopReads(mr) \cap {TRUE}}
    \cup {[seen |-> FALSE, dec |-> d, insp |-> "none"] : d \in DecodeOutcomes \ {"ok"}}
    \cup {[seen |-> FALSE, dec |-> "ok", insp |-> i] : i \in InspectOutcomes}

ReadTickDeliverAlways(im, mr, seen, dec, insp) ==
    IF seen THEN [m |-> mr, delivered |-> 0, exit |-> "remove"]
    ELSE IF dec # "ok" THEN [m |-> mr, delivered |-> 1, exit |-> "remove"]
    ELSE [m |-> [mr EXCEPT !.Name = IF @ = "" THEN StatName ELSE @],
          delivered |-> 1, exit |-> "none"]

\* one iteration of readStream's for-loop after the tick: what it leaves in the
\* monitor, how many times it called OnStatRead, and how it leaves the loop
\* ("none": next iteration; "remove": OnRemove is called; "return": plain return)
ReadTick(im, mr, seen, dec, insp) ==
    IF seen
    THEN [m |-> mr, delivered |-> 0, exit |-> "remove"]
    ELSE IF dec # "ok"
    THEN [m |-> IF im = 2 THEN [mr EXCEPT !.stop = TRUE] ELSE mr,
          delivered |-> 0, exit |-> "remove"]
    ELSE IF insp # "ok"
    THEN [m |-> mr, delivered |-> 0, exit |-> IF im = 1 THEN "remove" ELSE "return"]
    ELSE [m |-> [mr EXCEPT !.Name = IF @ = "" THEN StatName ELSE @],
          delivered |-> 1, exit |-> "none"]

\* ---------------------------------------------------------------- metric values
\* float64(x) of an unsigned counter: x rounded to MantBits significant bits,
\* ties to the even mantissa
RECURSIVE BitLen(_)
BitLen(x) == IF x = 0 THEN 0 ELSE 1 + BitLen(x \div 2)

Float64(x) ==
    IF BitLen(x) <= MantBits THEN x
    ELSE LET u == 2 ^ (BitLen(x) - MantBits)
             q == x \div u
             r == x % u
         IN IF 2 * r > u \/ (2 * r = u /\ q % 2 = 1) THEN (q + 1) * u ELSE q * u

\* a - b of two float64 values holding integers
FSub(a, b) == IF a >= b THEN Float64(a - b) ELSE 0 - Float64(b - a)

RECURSIVE Gcd(_, _)
Gcd(a, b) == IF b = 0 THEN a ELSE Gcd(b, a % b)

\* the value num/den in lowest terms; quotients and products of float64 values
\* are kept exact
Rat(num, den) == [num |-> num \div Gcd(num, den), den |-> den \div Gcd(num, den)]

\* counters a statistic may carry, and the lengths of its PercpuUsage list
Counters == {0, 100, 150, 1000, 2000, 2 ^ MantBits, 2 ^ MantBits + 1, 2 ^ MantBits + 2}
PercpuLens == {0, 1, 4}

\* the fields of TContainerStatistic that calculateCPUPercentUnix reads
Statistics == [TotalUsage : Counters, PreTotalUsage : Counters,
               SystemUsage : Counters, PreSystemUsage : Counters,
               PercpuLen : PercpuLens]

CalculateCPUPercentNoCores(stat) ==
    LET cpuDelta == FSub(Float64(stat.TotalUsage), Float64(stat.PreTotalUsage))
        systemDelta == FSub(Float64(stat.SystemUsage), Float64(stat.PreSystemUsage))
    IN IF systemDelta > 0 /\ cpuDelta > 0 THEN Rat(cpuDelta * 100, systemDelta)
       ELSE Rat(0, 1)

\* calculateCPUPercentUnix(stat)
calculateCPUPercentUnix(stat) ==
    LET cpuDelta == FSub(Float64(stat.TotalUsage), Float64(stat.PreTotalUsage))
        systemDelta == FSub(Float64(stat.SystemUsage), Float64(stat.PreSystemUsage))
    IN IF systemDelta > 0 /\ cpuDelta > 0
       THEN IF stat.PercpuLen > 0
            THEN Rat(cpuDelta * 100 * stat.PercpuLen, systemDelta)
            ELSE Rat(cpuDelta * 100, systemDelta)
       ELSE Rat(0, 1)

\* RunningState strings a status query may return
RunningStates == {"created", "running", "paused", "restarting", "removing", "exited",
                  "dead", "", "unknown", "Running", "stopped"}

StateToValueFromOne(state) ==
    CASE state = "created" -> 1
      [] state = "running" -> 2
      [] state = "paused" -> 3
      [] state = "restarting" -> 4
      [] state = "removing" -> 5
      [] state = "exited" -> 6
      [] state = "dead" -> 7
      [] OTHER -> 0

\* stateToValue(state)
stateToValue(state) ==
    CASE state = "created" -> 0
      [] state = "running" -> 1
      [] state = "paused" -> 2
      [] state = "restarting" -> 3
      [] state = "removing" -> 4
      [] state = "exited" -> 5
      [] state = "dead" -> 6
      [] OTHER -> -1

\* ---------------------------------------------------------------- initial state
InitWith(rec) ==
    /\ impl \in {1, 2}
    /\ record = rec
    /\ proc = "running"
    /\ recPc = "select"
    /\ containerList = {}
    /\ todo = {}
    /\ cur = NoMon
    /\ keys = {}
    /\ statsThreads = {}
    /\ mons = [m \in Mons |-> ZeroMon]
    /\ monPc = [m \in Mons |-> "unused"]
    /\ thread = [m \in Mons |-> NoMon]
    /\ hist = [m \in Mons |-> NoHist]
    /\ lastTick = NoTick
    /\ cyc = NoCycle
    /\ apiRet = [op |-> "none"]

Init == InitWith("cycle")

InitTick == InitWith("tick")

Running == proc = "running"

\* the histories are kept in the run that records them
Cyc(c) == IF record = "cycle" THEN c ELSE NoCycle
Tick(t) == IF record = "tick" THEN t ELSE NoTick

\* ---------------------------------------------------------------- process exit
\* the process ends: no task takes another step and its memory is gone
Exit(how) ==
    /\ proc' = how
    /\ recPc' = "select"
    /\ containerList' = {}
    /\ todo' = {}
    /\ cur' = NoMon
    /\ keys' = {}
    /\ statsThreads' = {}
    /\ mons' = [m \in Mons |-> ZeroMon]
    /\ monPc' = [m \in Mons |-> "unused"]
    /\ thread' = [m \in Mons |-> NoMon]
    /\ hist' = [m \in Mons |-> NoHist]
    /\ lastTick' = NoTick
    /\ cyc' = NoCycle
    /\ UNCHANGED <<impl, record, apiRet>>

\* ---------------------------------------------------------------- scrape server
\* srv.ListenAndServe() returned an error (the port cannot be bound): log.Fatal
HttpServeFail ==
    /\ Running
    /\ Exit("fatalServe")

\* ---------------------------------------------------------------- main(): the loop
\* select { case <-chStop: stopProgram(); return }: a signal is waiting on chStop
RecSelectStop ==
    /\ Running /\ recPc = "select"
    /\ recPc' = "stopAll"
    /\ lastTick' = NoTick
    /\ UNCHANGED <<impl, record, proc, containerList, todo, cur, keys, statsThreads,
                   mons, monPc, thread, hist, cyc, apiRet>>

\* select { default: }: no signal is waiting
RecSelectDefault ==
    /\ Running /\ recPc = "select"
    /\ recPc' = "timecheck"
    /\ lastTick' = NoTick
    /\ UNCHANGED <<impl, record, proc, containerList, todo, cur, keys, statsThreads,
                   mons, monPc, thread, hist, cyc, apiRet>>

\* time.Since(updTime) <= RefreshContainersListInterval: sleep and continue
RecSleep ==
    /\ Running /\ recPc = "timecheck"
    /\ recPc' = "select"
    /\ lastTick' = NoTick
    /\ UNCHANGED <<impl, record, proc, containerList, todo, cur, keys, statsThreads,
                   mons, monPc, thread, hist, cyc, apiRet>>

\* cli.ContainerList returned the live containers
RecList ==
    /\ Running /\ recPc = "timecheck"
    /\ \E live \in SUBSET Ids :
          /\ containerList' = live
          /\ todo' = live
    /\ recPc' = "start"
    /\ cyc' = Cyc([NoCycle EXCEPT !.regAtStart = statsThreads])
    /\ lastTick' = NoTick
    /\ UNCHANGED <<impl, record, proc, cur, keys, statsThreads, mons, monPc,
                   thread, hist, apiRet>>

\* cli.ContainerList failed: panic
RecListFail ==
    /\ Running /\ recPc = "timecheck"
    /\ Exit("panic")

\* first range loop is over: statsThreads.GetKeys()
RecGetKeys ==
    /\ Running /\ recPc = "start" /\ todo = {}
    /\ keys' = GetKeys(statsThreads)
    /\ recPc' = "stop"
    /\ cyc' = Cyc([cyc EXCEPT !.keys = GetKeys(statsThreads)])
    /\ lastTick' = NoTick
    /\ UNCHANGED <<impl, record, proc, containerList, todo, cur, statsThreads,
                   mons, monPc, thread, hist, apiRet>>

\* if statsThreads.Exists(cont.ID) { continue }
RecSkipExisting(id) ==
    /\ Running /\ recPc = "start" /\ id = First(todo)
    /\ Exists(statsThreads, id)
    /\ todo' = todo \ {id}
    /\ lastTick' = NoTick
    /\ UNCHANGED <<impl, record, proc, recPc, containerList, cur, keys, statsThreads,
                   mons, monPc, thread, hist, cyc, apiRet>>

MissingAlways(reg, id) == TRUE

\* the first range loop's test: a monitor is started when !statsThreads.Exists(cont.ID)
Missing(reg, id) == ~Exists(reg, id)

BreakOnError(td, id) == {}

\* Exec failed: log and continue with the containers left
ContinueOnError(td, id) == td \ {id}

\* !Exists(cont.ID): mon := new(TContainerMonitor); mon.Id = cont.ID; callbacks
\* wired; if e := mon.Exec(); e != nil { log; continue }
RecStart(id, m) ==
    /\ Running /\ recPc = "start" /\ id = First(todo)
    /\ Missing(statsThreads, id)
    /\ monPc[m] = "unused" /\ \A k \in Mons : k < m => monPc[k] # "unused"
    /\ \E out \in InitOutcomes :
          LET r == Exec([ZeroMon EXCEPT !.Id = id], out)
          IN /\ mons' = [mons EXCEPT ![m] = r.m]
             /\ monPc' = [monPc EXCEPT ![m] = IF r.launched THEN "open" ELSE "failed"]
             /\ hist' = [hist EXCEPT ![m].start = r.err]
             /\ IF r.err = "nil"
                THEN /\ recPc' = "put"
                     /\ cur' = m
                     /\ cyc' = Cyc([cyc EXCEPT !.started = @ \cup {[id |-> id, h |-> m]}])
                     /\ UNCHANGED todo
                ELSE /\ recPc' = "start"
                     /\ cur' = NoMon
                     /\ todo' = ContinueOnError(todo, id)
                     /\ cyc' = Cyc([cyc EXCEPT !.failed = @ \cup {id}])
    /\ lastTick' = NoTick
    /\ UNCHANGED <<impl, record, proc, containerList, keys, statsThreads, thread,
                   apiRet>>

\* if e := statsThreads.Put(cont.ID, mon); e != nil { log }
RecPut ==
    /\ Running /\ recPc = "put"
    /\ statsThreads' = Put(statsThreads, mons[cur].Id, cur).reg
    /\ todo' = todo \ {mons[cur].Id}
    /\ cur' = NoMon
    /\ recPc' = "start"
    /\ lastTick' = NoTick
    /\ UNCHANGED <<impl, record, proc, containerList, keys, mons, monPc, thread,
                   hist, cyc, apiRet>>

\* second range loop: the key is in containerList (present = true)
RecKeepKey(key) ==
    /\ Running /\ recPc = "stop" /\ key = First(keys)
    /\ key \in containerList
    /\ keys' = keys \ {key}
    /\ lastTick' = NoTick
    /\ UNCHANGED <<impl, record, proc, recPc, containerList, todo, cur, statsThreads,
                   mons, monPc, thread, hist, cyc, apiRet>>

RecStopKeyAndDel(key) ==
    /\ Running /\ recPc = "stop" /\ key = First(keys)
    /\ key \notin containerList
    /\ keys' = keys \ {key}
    /\ LET g == Get(statsThreads, key)
       IN IF g.found
          THEN /\ mons' = [mons EXCEPT ![g.h] = Stop(mons[g.h]).m]
               /\ cyc' = Cyc([cyc EXCEPT !.stopped = @ \cup {key}])
          ELSE UNCHANGED <<mons, cyc>>
    /\ statsThreads' = Del(statsThreads, key)
    /\ lastTick' = NoTick
    /\ UNCHANGED <<impl, record, proc, recPc, containerList, todo, cur,
                   monPc, thread, hist, apiRet>>

\* second range loop: !present: if th, found := statsThreads.Get(key); found { th.Stop() }
RecStopKey(key) ==
    /\ Running /\ recPc = "stop" /\ key = First(keys)
    /\ key \notin containerList
    /\ keys' = keys \ {key}
    /\ LET g == Get(statsThreads, key)
       IN IF g.found
          THEN /\ mons' = [mons EXCEPT ![g.h] = Stop(mons[g.h]).m]
               /\ cyc' = Cyc([cyc EXCEPT !.stopped = @ \cup {key}])
          ELSE UNCHANGED <<mons, cyc>>
    /\ lastTick' = NoTick
    /\ UNCHANGED <<impl, record, proc, recPc, containerList, todo, cur, statsThreads,
                   monPc, thread, hist, apiRet>>

\* the cycle is over, back to the top of the for-loop
RecCycleEnd ==
    /\ Running /\ recPc = "stop" /\ keys = {}
    /\ recPc' = "select"
    /\ containerList' = {}
    /\ cyc' = NoCycle
    /\ lastTick' = NoTick
    /\ UNCHANGED <<impl, record, proc, todo, cur, keys, statsThreads,
                   mons, monPc, thread, hist, apiRet>>

\* ThreadList.StopAll(): Stop() on every handle held, no entry removed
StopAll(reg, ms) ==
    [m \in Mons |-> IF m \in Handles(reg) THEN Stop(ms[m]).m ELSE ms[m]]

\* stopProgram(): statsThreads.StopAll()
RecStopAll ==
    /\ Running /\ recPc = "stopAll"
    /\ mons' = StopAll(statsThreads, mons)
    /\ recPc' = "shutdown"
    /\ lastTick' = NoTick
    /\ UNCHANGED <<impl, record, proc, containerList, todo, cur, keys, statsThreads,
                   monPc, thread, hist, cyc, apiRet>>

\* stopProgram(): httpServer.Shutdown succeeded; main returns
RecShutdown ==
    /\ Running /\ recPc = "shutdown"
    /\ Exit("exited")

\* stopProgram(): httpServer.Shutdown failed: log.Fatal
RecShutdownFail ==
    /\ Running /\ recPc = "shutdown"
    /\ Exit("fatalShutdown")

\* ---------------------------------------------------------------- readStream task
\* m.cli.ContainerStats succeeded: decoder built, loop entered
MonOpen(m) ==
    /\ Running /\ monPc[m] = "open"
    /\ monPc' = [monPc EXCEPT ![m] = "loop"]
    /\ lastTick' = NoTick
    /\ UNCHANGED <<impl, record, proc, recVars, statsThreads, mons, thread, hist,
                   cyc, apiRet>>

MonOpenFatal(m) ==
    /\ Running /\ monPc[m] = "open"
    /\ Exit("fatalStats")

\* m.cli.ContainerStats failed: log and return
MonOpenFail(m) ==
    /\ Running /\ monPc[m] = "open"
    /\ monPc' = [monPc EXCEPT ![m] = "done"]
    /\ hist' = [hist EXCEPT ![m].end = "openErr"]
    /\ lastTick' = NoTick
    /\ UNCHANGED <<impl, record, proc, recVars, statsThreads, mons, thread,
                   cyc, apiRet>>

MonTickKeepsLooping(m) ==
    /\ Running /\ monPc[m] = "loop"
    /\ \E in \in TickInputs(mons[m]) :
          LET r == ReadTick(impl, mons[m], in.seen, in.dec, in.insp)
          IN /\ mons' = [mons EXCEPT ![m] = r.m]
             /\ lastTick' = Tick([m |-> m, stopSeen |-> in.seen, decode |-> in.dec,
                                  inspect |-> in.insp, delivered |-> r.delivered])
             /\ hist' = [hist EXCEPT ![m].removed = IF r.exit = "remove" THEN 1 ELSE @,
                                     ![m].end = IF r.exit = "none" THEN @
                                                ELSE IF in.seen THEN "stop" ELSE "err"]
    /\ UNCHANGED <<impl, record, proc, recVars, statsThreads, monPc, thread, cyc, apiRet>>

\* one tick of the loop; leaving it by "remove" calls m.OnRemove(m.Id), which
\* enters containerStopped on this task
MonTick(m) ==
    /\ Running /\ monPc[m] = "loop"
    /\ \E in \in TickInputs(mons[m]) :
          LET r == ReadTick(impl, mons[m], in.seen, in.dec, in.insp)
          IN /\ mons' = [mons EXCEPT ![m] = r.m]
             /\ lastTick' = Tick([m |-> m, stopSeen |-> in.seen, decode |-> in.dec,
                                  inspect |-> in.insp, delivered |-> r.delivered])
             /\ monPc' = [monPc EXCEPT ![m] =
                             CASE r.exit = "none" -> "loop"
                               [] r.exit = "remove" -> "csGet"
                               [] OTHER -> "done"]
             /\ hist' = [hist EXCEPT ![m].removed = IF r.exit = "remove" THEN @ + 1 ELSE @,
                                     ![m].end = IF r.exit = "none" THEN @
                                                ELSE IF in.seen THEN "stop" ELSE "err"]
    /\ UNCHANGED <<impl, record, proc, recVars, statsThreads, thread, cyc, apiRet>>

\* containerStopped: thread, found := statsThreads.Get(containerId); !found: return
CsGet(m) ==
    /\ Running /\ monPc[m] = "csGet"
    /\ LET g == Get(statsThreads, mons[m].Id)
       IN IF g.found
          THEN /\ thread' = [thread EXCEPT ![m] = g.h]
               /\ monPc' = [monPc EXCEPT ![m] = "csStop"]
          ELSE /\ thread' = thread
               /\ monPc' = [monPc EXCEPT ![m] = "done"]
    /\ lastTick' = NoTick
    /\ UNCHANGED <<impl, record, proc, recVars, statsThreads, mons, hist,
                   cyc, apiRet>>

CsStopAllThreads(m) ==
    /\ Running /\ monPc[m] = "csStop"
    /\ mons' = StopAll(statsThreads, mons)
    /\ monPc' = [monPc EXCEPT ![m] = "csDel"]
    /\ lastTick' = NoTick
    /\ UNCHANGED <<impl, record, proc, recVars, statsThreads, thread, hist,
                   cyc, apiRet>>

\* containerStopped: thread.Stop()
CsStop(m) ==
    /\ Running /\ monPc[m] = "csStop"
    /\ mons' = [mons EXCEPT ![thread[m]] = Stop(mons[thread[m]]).m]
    /\ monPc' = [monPc EXCEPT ![m] = "csDel"]
    /\ lastTick' = NoTick
    /\ UNCHANGED <<impl, record, proc, recVars, statsThreads, thread, hist,
                   cyc, apiRet>>

\* containerStopped: statsThreads.Del(containerId); thread.GetOpt("name"); the
\* container's metrics are deleted; the task ends
CsDel(m) ==
    /\ Running /\ monPc[m] = "csDel"
    /\ statsThreads' = Del(statsThreads, mons[m].Id)
    /\ mons' = [mons EXCEPT ![thread[m]] = GetOpt(impl, mons[thread[m]], "name").m]
    /\ cyc' = Cyc([cyc EXCEPT !.deleted =
                  IF Exists(statsThreads, mons[m].Id) THEN @ \cup {mons[m].Id} ELSE @])
    /\ thread' = [thread EXCEPT ![m] = NoMon]
    /\ monPc' = [monPc EXCEPT ![m] = "done"]
    /\ lastTick' = NoTick
    /\ UNCHANGED <<impl, record, proc, recVars, hist, apiRet>>

\* ---------------------------------------------------------------- direct calls
\* The capability set of a monitor (TThread) and the registry's operations,
\* called one at a time on monitors that Exec has started.
ApiMons == {1, 2} \cap Mons

StartedMon == [Id : Ids, Name : {"", StatName}, Labels : {"set"}, cli : {"open", "closed"},
               stop : BOOLEAN]

InitApi ==
    /\ impl \in {1, 2}
    /\ record = "none"
    /\ proc = "running"
    /\ recPc = "select"
    /\ containerList = {}
    /\ todo = {}
    /\ cur = NoMon
    /\ keys = {}
    /\ mons \in [Mons -> StartedMon \cup {ZeroMon}]
    /\ \A m \in Mons : mons[m] = ZeroMon <=> m \notin ApiMons
    /\ statsThreads \in SUBSET {[id |-> mons[m].Id, h |-> m] : m \in ApiMons}
    /\ \A e1, e2 \in statsThreads : e1.id = e2.id => e1 = e2
    /\ monPc = [m \in Mons |-> IF m \in ApiMons THEN "loop" ELSE "unused"]
    /\ thread = [m \in Mons |-> NoMon]
    /\ hist = [m \in Mons |-> IF m \in ApiMons THEN [NoHist EXCEPT !.start = "nil"]
                                              ELSE NoHist]
    /\ lastTick = NoTick
    /\ cyc = NoCycle
    /\ apiRet = [op |-> "none"]

apiFrame == <<impl, record, proc, recVars, monPc, thread, hist, lastTick, cyc>>

ApiGetOpt(m, name) ==
    /\ mons' = [mons EXCEPT ![m] = GetOpt(impl, mons[m], name).m]
    /\ apiRet' = [op |-> "GetOpt", m |-> m, name |-> name,
                  ret |-> GetOpt(impl, mons[m], name).ret]
    /\ UNCHANGED <<apiFrame, statsThreads>>

ApiStop(m) ==
    /\ mons' = [mons EXCEPT ![m] = Stop(mons[m]).m]
    /\ apiRet' = [op |-> "Stop", m |-> m, err |-> Stop(mons[m]).err]
    /\ UNCHANGED <<apiFrame, statsThreads>>

ApiPut(id, h) ==
    /\ statsThreads' = Put(statsThreads, id, h).reg
    /\ apiRet' = [op |-> "Put", id |-> id, h |-> h, err |-> Put(statsThreads, id, h).err]
    /\ UNCHANGED <<apiFrame, mons>>

ApiGet(id) ==
    /\ apiRet' = [op |-> "Get", id |-> id, ret |-> Get(statsThreads, id)]
    /\ UNCHANGED <<apiFrame, mons, statsThreads>>

ApiExists(id) ==
    /\ apiRet' = [op |-> "Exists", id |-> id, ret |-> Exists(statsThreads, id)]
    /\ UNCHANGED <<apiFrame, mons, statsThreads>>

ApiDel(id) ==
    /\ statsThreads' = Del(statsThreads, id)
    /\ apiRet' = [op |-> "Del", id |-> id]
    /\ UNCHANGED <<apiFrame, mons>>

ApiGetKeys ==
    /\ apiRet' = [op |-> "GetKeys", ret |-> GetKeys(statsThreads)]
    /\ UNCHANGED <<apiFrame, mons, statsThreads>>

ApiStopAll ==
    /\ mons' = StopAll(statsThreads, mons)
    /\ apiRet' = [op |-> "StopAll"]
    /\ UNCHANGED <<apiFrame, statsThreads>>

NextApi ==
    \/ \E m \in ApiMons, name \in OptNames : ApiGetOpt(m, name)
    \/ \E m \in ApiMons : ApiStop(m)
    \/ \E id \in Ids, h \in ApiMons : ApiPut(id, h)
    \/ \E id \in Ids : ApiGet(id)
    \/ \E id \in Ids : ApiExists(id)
    \/ \E id \in Ids : ApiDel(id)
    \/ ApiGetKeys
    \/ ApiStopAll

SpecApi == InitApi /\ [][NextApi]_vars

\* ---------------------------------------------------------------- metric functions
\* stateToValue and calculateCPUPercentUnix applied to the statistic a snapshot
\* carries, as containerStatisticRead does, once per run; nothing else runs
InitCalc ==
    /\ impl \in {1, 2}
    /\ record = "none"
    /\ proc = "running"
    /\ recPc = "select"
    /\ containerList = {}
    /\ todo = {}
    /\ cur = NoMon
    /\ keys = {}
    /\ statsThreads = {}
    /\ mons = [m \in Mons |-> ZeroMon]
    /\ monPc = [m \in Mons |-> "unused"]
    /\ thread = [m \in Mons |-> NoMon]
    /\ hist = [m \in Mons |-> NoHist]
    /\ lastTick = NoTick
    /\ cyc = NoCycle
    /\ apiRet = [op |-> "none"]

CalcStateToValue(state) ==
    /\ apiRet.op = "none"
    /\ apiRet' = [op |-> "stateToValue", state |-> state, ret |-> stateToValue(state)]
    /\ UNCHANGED <<apiFrame, mons, statsThreads>>

CalcCPUPercent(stat) ==
    /\ apiRet.op = "none"
    /\ apiRet' = [op |-> "calculateCPUPercentUnix", stat |-> stat,
                  ret |-> calculateCPUPercentUnix(stat)]
    /\ UNCHANGED <<apiFrame, mons, statsThreads>>

NextCalc ==
    \/ \E state \in RunningStates : CalcStateToValue(state)
    \/ \E stat \in Statistics : CalcCPUPercent(stat)

SpecCalc == InitCalc /\ [][NextCalc]_vars

\* ---------------------------------------------------------------- the program
Next ==
    \/ HttpServeFail
    \/ RecSelectStop
    \/ RecSelectDefault
    \/ RecSleep
    \/ RecList
    \/ RecListFail
    \/ \E id \in Ids : RecSkipExisting(id)
    \/ \E id \in Ids, m \in Mons : RecStart(id, m)
    \/ RecPut
    \/ RecGetKeys
    \/ \E key \in Ids : RecKeepKey(key)
    \/ \E key \in Ids : RecStopKey(key)
    \/ RecCycleEnd
    \/ RecStopAll
    \/ RecShutdown
    \/ RecShutdownFail
    \/ \E m \in Mons : MonOpen(m)
    \/ \E m \in Mons : MonOpenFail(m)
    \/ \E m \in Mons : MonTick(m)
    \/ \E m \in Mons : CsGet(m)
    \/ \E m \in Mons : CsStop(m)
    \/ \E m \in Mons : CsDel(m)

Spec == Init /\ [][Next]_vars

SpecTick == InitTick /\ [][Next]_vars


\* ---------------------------------------------------------------- fair scheduling
\* The run goes on after MaxMon monitors were constructed: the Exec of a further
\* one returns an error from init (log, continue), and the object is not kept.
RecStartUntracked(id) ==
    /\ Running /\ recPc = "start" /\ id = First(todo)
    /\ Missing(statsThreads, id)
    /\ \A m \in Mons : monPc[m] # "unused"
    /\ todo' = ContinueOnError(todo, id)
    /\ cyc' = Cyc([cyc EXCEPT !.failed = @ \cup {id}])
    /\ lastTick' = NoTick
    /\ UNCHANGED <<impl, record, proc, recPc, containerList, cur, keys, statsThreads,
                   mons, monPc, thread, hist, apiRet>>

\* a step of main()'s goroutine
RecNext ==
    \/ RecSelectStop
    \/ RecSelectDefault
    \/ RecSleep
    \/ RecList
    \/ RecListFail
    \/ \E id \in Ids : RecSkipExisting(id)
    \/ \E id \in Ids, m \in Mons : RecStart(id, m)
    \/ \E id \in Ids : RecStartUntracked(id)
    \/ RecPut
    \/ RecGetKeys
    \/ \E key \in Ids : RecKeepKey(key)
    \/ \E key \in Ids : RecStopKey(key)
    \/ RecCycleEnd
    \/ RecStopAll
    \/ RecShutdown
    \/ RecShutdownFail

\* a step of the goroutine that Exec launched for monitor m
MonNext(m) ==
    \/ MonOpen(m)
    \/ MonOpenFail(m)
    \/ MonTick(m)
    \/ CsGet(m)
    \/ CsStop(m)
    \/ CsDel(m)

\* the tick on which the read of m.stop returns the true that Stop() stored
MonSeesStop(m) == MonTick(m) /\ hist'[m].end = "stop"

NextFair ==
    \/ HttpServeFail
    \/ RecNext
    \/ \E m \in Mons : MonNext(m)

\* every goroutine that can run does run, every call it makes returns, the
\* refresh interval elapses again and again, and a stored stop flag is
\* eventually the value read
Fairness ==
    /\ WF_vars(RecNext)
    /\ SF_vars(RecList)
    /\ \A m \in Mons : WF_vars(MonNext(m)) /\ WF_vars(MonSeesStop(m))

SpecFair == Init /\ [][NextFair]_vars /\ Fairness

\* ---------------------------------------------------------------- properties
Failed(m) == hist[m].start \notin {"none", "nil"}

\* the loop iteration of main() has visited every container and every key
CycleEnd == recPc = "stop" /\ keys = {}

\* C1: a monitor whose read-loop task was launched and has ended has had OnRemove
\* invoked exactly once, and no monitor has it invoked a second time
C1_ExactlyOnceRemoval ==
    \A m \in Mons : (monPc[m] = "done" => hist[m].removed = 1) /\ hist[m].removed <= 1

\* C2: a monitor whose Exec returned an error has no read-loop task and OnRemove
\* is never invoked for it
C2_FailedStartNeverRuns ==
    \A m \in Mons : Failed(m) => monPc[m] = "failed" /\ hist[m].removed = 0

C2_Witness ==
    /\ recPc = "timecheck"
    /\ \E m \in Mons : Failed(m)
    /\ \E m \in Mons : monPc[m] = "done" /\ hist[m].removed = 1

\* C3: the registry holds at most one handle per id, and a Put for an id that is
\* present returns AlreadyMonitored and leaves the registry as it was
C3_RegistryUnique ==
    /\ [](\A id \in Ids : Cardinality({e \in statsThreads : e.id = id}) <= 1)
    /\ [][apiRet'.op = "Put" /\ Exists(statsThreads, apiRet'.id)
            => apiRet'.err = "AlreadyMonitored" /\ statsThreads' = statsThreads]_vars

C3_Witness ==
    /\ apiRet.op = "Put"
    /\ apiRet.err = "AlreadyMonitored"
    /\ Get(statsThreads, apiRet.id).found
    /\ Get(statsThreads, apiRet.id).h # apiRet.h

\* C4: at the end of a cycle Stop() was called on every registered id absent from
\* the live set (unless its own callback removed it first); an id leaves the
\* registry only in the containerStopped run of the monitor registered under it;
\* no step of the loop removes an entry
C4_RemovalOnlyByOwnCallback ==
    /\ [](CycleEnd => \A id \in cyc.keys \ containerList :
                          id \in cyc.stopped \/ id \in cyc.deleted)
    /\ [][\A id \in Ids :
             Exists(statsThreads, id) /\ ~Exists(statsThreads', id) /\ proc' = "running"
             => \E m \in Mons : /\ monPc[m] = "csDel" /\ monPc'[m] = "done"
                                /\ mons[m].Id = id
                                /\ Get(statsThreads, id).h = m]_vars
    /\ [][(recPc' # recPc \/ keys' # keys \/ todo' # todo) /\ proc' = "running"
             => GetKeys(statsThreads) \subseteq GetKeys(statsThreads')]_vars

C4_Witness ==
    /\ CycleEnd
    /\ \E id \in cyc.stopped : Exists(statsThreads, id) /\ id \notin containerList

\* what C5 asks of a live id at the end of a cycle
ConvergedAt(id) ==
    IF id \in GetKeys(cyc.regAtStart)
    THEN /\ Get(statsThreads, id) = Get(cyc.regAtStart, id)
         /\ id \notin GetKeys(cyc.started)
    ELSE \E e \in cyc.started : e.id = id /\ e \in statsThreads

\* C5 as claimed: at the end of a cycle in which every Exec succeeded, every live
\* id that was unregistered at the start is registered with the monitor started in
\* this cycle, and every live id that was registered keeps its handle, no Exec
C5_Original ==
    CycleEnd /\ record = "cycle" /\ cyc.failed = {}
    => \A id \in containerList : ConvergedAt(id)

\* C5 amended: the same, for the live ids whose entry no containerStopped run
\* removed during the cycle
C5_Amended ==
    CycleEnd /\ record = "cycle" /\ cyc.failed = {}
    => \A id \in containerList \ cyc.deleted : ConvergedAt(id)

C5_Witness ==
    /\ CycleEnd /\ cyc.failed = {} /\ cyc.deleted = {}
    /\ \E id1, id2 \in containerList :
          /\ id1 \in GetKeys(cyc.regAtStart)
          /\ id2 \notin GetKeys(cyc.regAtStart)
          /\ id2 \in GetKeys(cyc.started)

\* C6: Stop() returns no error, sets the flag, and a second Stop() changes
\* nothing more; the flag once set stays set; OnRemove is invoked only by the
\* read loop leaving its for-loop, at most once per monitor
C6_StopIdempotent ==
    /\ [](\A m \in Mons : monPc[m] # "unused" =>
            /\ Stop(mons[m]).err = "nil"
            /\ Stop(mons[m]).m.stop
            /\ Stop(Stop(mons[m]).m).err = "nil"
            /\ Stop(Stop(mons[m]).m).m = Stop(mons[m]).m
            /\ hist[m].removed <= 1)
    /\ [][\A m \in Mons :
             /\ mons[m].stop /\ proc' = "running" => mons'[m].stop
             /\ hist'[m].removed # hist[m].removed /\ proc' = "running"
                => monPc[m] = "loop" /\ monPc'[m] = "csGet"]_vars

C6_Witness ==
    \E m \in Mons :
       /\ monPc[m] = "csDel" /\ thread[m] = m
       /\ mons[m].Id \in cyc.stopped
       /\ mons[m].stop
       /\ hist[m].removed = 1

\* C7: an id whose Exec failed is not registered at the end of the cycle; the
\* failure leaves the loop at the next container with the rest still to visit;
\* whenever the loop visits a live id that is not registered it constructs a
\* monitor for it and calls Exec
C7_FailedStartRetried ==
    /\ [](CycleEnd => \A id \in cyc.failed : ~Exists(statsThreads, id))
    /\ [][cyc.failed \subseteq cyc'.failed /\ cyc'.failed # cyc.failed
             => recPc' = "start" /\ todo' = todo \ (cyc'.failed \ cyc.failed)]_vars
    /\ [][/\ recPc = "start" /\ todo # {} /\ ~Exists(statsThreads, First(todo))
          /\ (recPc' # recPc \/ todo' # todo) /\ proc' = "running"
          => \E m \in Mons : /\ monPc[m] = "unused"
                             /\ mons'[m].Id = First(todo)
                             /\ hist'[m].start # "none"]_vars

C7_Witness ==
    \E m1, m2 \in Mons :
       /\ m1 < m2
       /\ Failed(m1)
       /\ mons[m1].Id = mons[m2].Id
       /\ hist[m2].start # "none"

C9_GetOptPure == [][apiRet'.op = "GetOpt" => mons' = mons]_vars

\* C10 as claimed: a tick calls OnStatRead once exactly when it decoded a record;
\* a tick whose decode failed is followed by exactly one OnRemove
C10_Original ==
    lastTick.m # NoMon =>
       /\ lastTick.delivered = (IF lastTick.decode = "ok" THEN 1 ELSE 0)
       /\ lastTick.decode \in {"err", "eof"} => hist[lastTick.m].removed = 1

\* C10 amended: a tick calls OnStatRead once exactly when it decoded a record and
\* the status query that follows succeeded; a tick whose decode failed is
\* followed by exactly one OnRemove
C10_Amended ==
    /\ lastTick.m # NoMon =>
          /\ lastTick.delivered =
                (IF lastTick.decode = "ok" /\ lastTick.inspect = "ok" THEN 1 ELSE 0)
          /\ lastTick.decode \in {"err", "eof"} => hist[lastTick.m].removed = 1
    /\ \A m \in Mons : hist[m].removed <= 1

C10_Witness ==
    /\ lastTick.m # NoMon
    /\ lastTick.decode \in {"err", "eof"}
    /\ lastTick.delivered = 0
    /\ hist[lastTick.m].removed = 1

\* the registry maps the monitor's id to the monitor
Registered(m) == [id |-> mons[m].Id, h |-> m] \in statsThreads

\* C11: once the loop has called Stop() on the monitor registered under an id
\* that left the live set, the id is eventually absent from the registry
C11_StopLeadsToRemoval ==
    \A id \in Ids :
       (id \in cyc.stopped /\ Exists(statsThreads, id)) ~> ~Exists(statsThreads, id)

\* C12: a registered monitor whose task ended on an error (the stream could not
\* be opened, a decode error, end-of-stream, a failed status query) eventually
\* leaves the registry, so that a later cycle can start a monitor for its id
C12_ErrorLeadsToRemoval ==
    \A m \in Mons :
       (hist[m].end \in {"openErr", "err"} /\ Registered(m)) ~> ~Registered(m)


\* the lifecycle status mapping as the specification tabulates it
StatusTable == [created |-> 0, running |-> 1, paused |-> 2, restarting |-> 3,
                removing |-> 4, exited |-> 5, dead |-> 6]

\* C13: stateToValue maps created, running, paused, restarting, removing, exited,
\* dead to 0..6 and every other string, the empty one included, to -1
C13_StateToValue ==
    apiRet.op = "stateToValue" =>
       apiRet.ret = (IF apiRet.state \in DOMAIN StatusTable
                     THEN StatusTable[apiRet.state] ELSE -1)

C13_Witness ==
    /\ apiRet.op = "stateToValue"
    /\ apiRet.state = ""
    /\ apiRet.ret = -1

\* what C14 states for deltas dc and ds and a per-core list of length n
PercentOf(dc, ds, n) ==
    IF dc <= 0 \/ ds <= 0 THEN Rat(0, 1)
    ELSE Rat(dc * 100 * (IF n > 0 THEN n ELSE 1), ds)

\* C14 as claimed: the result is 0 when the difference of the total-usage
\* counters or of the system-usage counters is zero or negative, and otherwise
\* cpuDelta / systemDelta * 100, times the length of a non-empty per-core list
C14_Original ==
    apiRet.op = "calculateCPUPercentUnix" =>
       apiRet.ret = PercentOf(apiRet.stat.TotalUsage - apiRet.stat.PreTotalUsage,
                              apiRet.stat.SystemUsage - apiRet.stat.PreSystemUsage,
                              apiRet.stat.PercpuLen)

\* C14 amended: the same with the deltas taken between the float64 values of the
\* counters, which are the counters themselves when all four are at most
\* 2^MantBits; cpuDelta 50 and systemDelta 1000 give 5, and 20 with 4 cores
C14_Amended ==
    apiRet.op = "calculateCPUPercentUnix" =>
       LET st == apiRet.stat
           exact == \A c \in {st.TotalUsage, st.PreTotalUsage, st.SystemUsage,
                               st.PreSystemUsage} : c <= 2 ^ MantBits
       IN /\ apiRet.ret = PercentOf(FSub(Float64(st.TotalUsage), Float64(st.PreTotalUsage)),
                                    FSub(Float64(st.SystemUsage), Float64(st.PreSystemUsage)),
                                    st.PercpuLen)
          /\ exact => apiRet.ret = PercentOf(st.TotalUsage - st.PreTotalUsage,
                                             st.SystemUsage - st.PreSystemUsage,
                                             st.PercpuLen)
          /\ (/\ st.TotalUsage = 150 /\ st.PreTotalUsage = 100
              /\ st.SystemUsage = 2000 /\ st.PreSystemUsage = 1000)
             => apiRet.ret = Rat(IF st.PercpuLen = 4 THEN 20
                                 ELSE IF st.PercpuLen = 0 THEN 5 ELSE 5 * st.PercpuLen, 1)

C14_Witness ==
    /\ apiRet.op = "calculateCPUPercentUnix"
    /\ apiRet.stat.TotalUsage = 150 /\ apiRet.stat.PreTotalUsage = 100
    /\ apiRet.stat.SystemUsage = 2000 /\ apiRet.stat.PreSystemUsage = 1000
    /\ apiRet.stat.PercpuLen = 4
    /\ apiRet.ret = Rat(20, 1)

\* the read-loop task is launched and its termination path has not begun
Active(m) == monPc[m] \in {"open", "loop"}

\* C15: a monitor whose task entered the read loop and has ended, whatever ended
\* the loop, has its docker client closed
C15_SessionReleased ==
    \A m \in Mons :
       monPc[m] = "done" /\ hist[m].end \in {"stop", "err"} => mons[m].cli = "closed"

\* C16: a step of a monitor's termination (leaving the read loop, and each step
\* of the containerStopped run it triggers) leaves the process running and the
\* loop where it is, changes no other monitor, and changes no registry entry of
\* another id
C16_TerminationFrame ==
    [][\A m \in Mons :
          /\ monPc[m] \in {"open", "loop", "csGet", "csStop", "csDel"}
          /\ monPc'[m] \in {"csGet", "csStop", "csDel", "done"}
          /\ monPc'[m] # monPc[m]
          => /\ proc' = "running"
             /\ recVars' = recVars
             /\ mons'[m].Id = mons[m].Id
             /\ \A k \in Mons \ {m} : mons'[k] = mons[k] /\ monPc'[k] = monPc[k]
             /\ {e \in statsThreads' : e.id # mons[m].Id}
                   = {e \in statsThreads : e.id # mons[m].Id}]_vars

C16_Witness ==
    \E m1, m2 \in Mons :
       /\ monPc[m1] = "done" /\ hist[m1].end = "err" /\ hist[m1].removed = 1
       /\ ~Exists(statsThreads, mons[m1].Id)
       /\ mons[m2].Id # mons[m1].Id
       /\ monPc[m2] = "loop" /\ Registered(m2) /\ ~mons[m2].stop
       /\ recPc = "start"

\* C17: every handle the registry holds is of a monitor whose read-loop task has
\* not returned
C17_RegistryHoldsRunning ==
    \A e \in statsThreads : monPc[e.h] # "done"

\* C18: no two monitors with the same container id are active at once
C18_OneActivePerId ==
    \A m1, m2 \in Mons :
       m1 # m2 /\ Active(m1) /\ Active(m2) => mons[m1].Id # mons[m2].Id

C18_Witness ==
    \E m1, m2 \in Mons :
       /\ mons[m1].Id = mons[m2].Id
       /\ monPc[m1] = "done" /\ hist[m1].end = "stop" /\ hist[m1].removed = 1
       /\ Active(m2) /\ Registered(m2)

\* C19: while the loop is between a successful Exec and its Put the id is not
\* in the registry; the Put returns no error and registers the monitor
C19_PutNeverRejected ==
    /\ [](recPc = "put" /\ proc = "running" => ~Exists(statsThreads, mons[cur].Id))
    /\ [][recPc = "put" /\ recPc' # "put" /\ proc' = "running"
            => /\ Put(statsThreads, mons[cur].Id, cur).err = "nil"
               /\ [id |-> mons[cur].Id, h |-> cur] \in statsThreads']_vars

C19_Witness ==
    /\ recPc = "start"
    /\ \E e \in cyc.started : e \in statsThreads /\ Active(e.h)
    /\ \E m \in Mons : monPc[m] = "done" /\ hist[m].removed = 1

\* C20: a tick that calls OnStatRead is of a monitor whose OnRemove has not been
\* invoked, and a monitor whose OnRemove has been invoked takes no further tick
C20_NoSnapshotAfterRemoved ==
    /\ [](lastTick.m # NoMon /\ lastTick.delivered = 1 => hist[lastTick.m].removed = 0)
    /\ [][\A m \in Mons :
             hist[m].removed >= 1 /\ proc' = "running" /\ lastTick'.m = m
             => UNCHANGED <<mons, monPc, hist, lastTick>>]_vars

C20_Witness ==
    \E m \in Mons :
       /\ hist[m].removed = 1
       /\ mons[m].Name = StatName
       /\ monPc[m] = "done"

====
